---- MODULE Spec2Model ----
(***************************************************************************)
(* Model of src/app.py: the AI-Powered Career Navigator.                   *)
(*                                                                         *)
(*   - safe_generate_content: the memoized remote-call gateway with its    *)
(*     bounded retry loop (lines 44-85);                                   *)
(*   - analyze_resume, research_gaps, design_curriculum: the three stages  *)
(*     (lines 91-208), the last of which computes the skill gap;           *)
(*   - the Streamlit script: widgets, the button handler that runs the     *)
(*     pipeline, and the display section (lines 212-293).                  *)
(*                                                                         *)
(* Strings the code inspects (widget texts, skills) are sequences of       *)
(* one-character strings, so that strip(), + and ", ".join are computed    *)
(* and not assumed.                                                        *)
(***************************************************************************)
EXTENDS Integers, Sequences, FiniteSets, TLC

VARIABLES
    current_role,     \* widget "current_role"            (line 220)
    target_role,      \* widget "target_role"             (line 223)
    resume_text,      \* widget "resume_summary"          (line 228)
    roadmap_result,   \* st.session_state.roadmap_result  (lines 35-36)
    max_retries,      \* parameter of safe_generate_content (line 46)
    gwCache,          \* st.cache_data store of safe_generate_content (line 44)
    researchCache,    \* st.cache_data store of research_gaps         (line 125)
    designCache,      \* st.cache_data store of design_curriculum     (line 162)
    pc,               \* position of the script run
    gwpc,             \* position of the gateway call in progress
    gwKey,            \* hashed arguments of the gateway call in progress
    attempt,          \* loop variable of the retry loop  (line 63)
    lastAnswer,       \* what the service answered to the latest request of this call
    transientOnly,    \* every failed request of this call failed with a transient error
    events,           \* notifications, requests and sleeps of this call, in order
    gwResult,         \* value returned by the gateway call
    analysis_output,  \* local of the button handler      (line 257)
    research_output,  \* local of the button handler      (line 260)
    roadmap_markdown, \* local of the button handler      (line 268)
    gap_skills,       \* local of design_curriculum       (line 174)
    stagesRun,        \* stages begun in the current run, in order
    runs,             \* number of button presses so far
    rejected,         \* the last button press was stopped at line 242
    displayed,        \* the display section showed a roadmap (lines 290-293)
    prevCall,         \* per stage: arguments and outcome of its previous call
    storedInputs,     \* the widget texts roadmap_result was computed from
    fallbackMemo      \* arguments for which research_gaps returned its fallback

vars == << current_role, target_role, resume_text, roadmap_result, max_retries,
           gwCache, researchCache, designCache, pc, gwpc, gwKey, attempt,
           lastAnswer, transientOnly, events, gwResult, analysis_output, research_output,
           roadmap_markdown, gap_skills, stagesRun, runs, rejected, displayed,
           prevCall, storedInputs, fallbackMemo >>

----------------------------------------------------------------------------
(* Bounds of the model.                                                    *)

\* largest retry bound passed to safe_generate_content
MaxRetries == 3
\* number of button presses explored (widgets are edited between presses)
MaxRuns == 2
\* longest required-skills list given to the gap computation
MaxRequired == 3
\* longest current-skills list given to the gap computation
MaxExisting == 2

----------------------------------------------------------------------------
(* Strings.                                                                *)

\* characters str.strip() removes
IsSpace(c) == c \in {" ", "\n", "\t"}

RECURSIVE LStrip(_)
LStrip(s) == IF s # << >> /\ IsSpace(Head(s)) THEN LStrip(Tail(s)) ELSE s

RECURSIVE RStrip(_)
RStrip(s) ==
    IF s # << >> /\ IsSpace(s[Len(s)]) THEN RStrip(SubSeq(s, 1, Len(s) - 1)) ELSE s

\* str.strip()
Strip(s) == RStrip(LStrip(s))

\* sep.join(list)
RECURSIVE Join(_, _)
Join(list, sep) ==
    IF list = << >> THEN << >>
    ELSE IF Len(list) = 1 THEN list[1]
    ELSE list[1] \o sep \o Join(Tail(list), sep)

\* x in list
InList(x, list) == \E i \in 1..Len(list) : list[i] = x

\* all lists over S of length at most n
ListsUpTo(S, n) == UNION { [1..k -> S] : k \in 0..n }

----------------------------------------------------------------------------
(* Data: skills, the fallback objects of the stages, and the texts the     *)
(* remote service may answer with.                                         *)

Python == << "P", "y", "t", "h", "o", "n" >>
PythonLoose == << "p", "y", "t", "h", "o", "n", " " >>
SQL == << "S", "Q", "L" >>
Sql == << "s", "q", "l" >>
Docker == << "D", "o", "c", "k", "e", "r" >>
Java == << "j", "a", "v", "a" >>
DataAnalysis == << "D", "a", "t", "a", " ", "A", "n", "a", "l", "y", "s", "i", "s" >>
AdvancedLLMs == << "A", "d", "v", "a", "n", "c", "e", "d", " ", "L", "L", "M", "s" >>
CloudDeployment ==
    << "C", "l", "o", "u", "d", " ", "D", "e", "p", "l", "o", "y", "m", "e", "n", "t",
       " ", "(", "G", "C", "P", ")" >>
PromptEngineering ==
    << "P", "r", "o", "m", "p", "t", " ", "E", "n", "g", "i", "n", "e", "e", "r", "i",
       "n", "g" >>
VectorDatabases ==
    << "V", "e", "c", "t", "o", "r", " ", "D", "a", "t", "a", "b", "a", "s", "e", "s" >>
CICD == << "C", "I", "/", "C", "D" >>

\* the dict returned at lines 118-122
FallbackAnalysis ==
    [ current_skills |-> << Python, SQL, DataAnalysis >>,
      current_roles  |-> << "Data Analyst", "Intern" >>,
      target_career  |-> "Senior Data Scientist" ]

\* the dict returned at lines 156-159
FallbackResearch ==
    [ required_skills |-> << AdvancedLLMs, CloudDeployment, PromptEngineering,
                             VectorDatabases, CICD >>,
      salary_range    |-> "$140,000 - $200,000" ]

\* the string returned at line 208 when the response is falsy
ErrorRoadmap == "Error: Could not generate roadmap."

\* Texts of a response. TextProse is no JSON at all; TextOtherJson is JSON
\* that lacks the keys the system instruction asks for; TextProfile and
\* TextMarket follow the instructions of lines 95-100 and 133-138;
\* TextMarkdown is a roadmap document.
TextProse == "I am sorry, I cannot help with that."
TextOtherJson == "{\"error\": \"n/a\"}"
TextProfile == "{\"current_skills\": [\"sql\", \"java\"], ...}"
TextMarket == "{\"required_skills\": [\"SQL\", \"Python\", \"Docker\"], ...}"
TextMarkdown == "# Roadmap ..."

\* the texts the service may answer a stage's request with
Texts(stage) ==
    CASE stage = "Analyze"  -> { TextProse, TextOtherJson, TextProfile }
      [] stage = "Research" -> { TextProse, TextOtherJson, TextMarket }
      [] stage = "Design"   -> { TextMarkdown }

\* json.loads(text) raises
JsonFails(text) == text \in { TextProse, TextMarkdown }

\* json.loads(text) when it does not raise
JsonLoads(text) ==
    CASE text = TextOtherJson -> [ error |-> "n/a" ]
      [] text = TextProfile ->
            [ current_skills |-> << Sql, Java >>,
              current_roles  |-> << "Engineer" >>,
              target_career  |-> "Data Engineer" ]
      [] text = TextMarket ->
            [ required_skills |-> << SQL, Python, Docker >>,
              salary_range    |-> "$120k - $180k" ]

\* values of the gateway: a response object, None, a raised exception
Response(text) == [ tag |-> "response", text |-> text ]
NoneValue == [ tag |-> "None" ]
Raised(kind) == [ tag |-> "raise", kind |-> kind ]
NoResult == [ tag |-> "pending" ]
NoData == [ tag |-> "unset" ]
NoKey == [ stage |-> "none" ]

Stages == { "Analyze", "Research", "Design" }

\* What one request to the remote service can end in, other than a response:
\*   "server"  - google.genai.errors.ServerError (503, 504): an APIError;
\*   "client"  - google.genai.errors.ClientError (400 malformed request,
\*               401/403 authentication): an APIError as well;
\*   "other"   - any exception that is not an APIError (a network failure).
ErrorKinds == { "server", "client", "other" }
TransientKinds == { "server" }
PermanentKinds == { "client", "other" }

----------------------------------------------------------------------------
(* Inputs the user can type into the three widgets. The sets hold an empty *)
(* and a blank resume, texts that differ only in case, and role texts      *)
(* whose concatenations coincide.                                          *)

CurrentRoles == { << "a" >>, << "a", "b" >> }
TargetRoles == { << "b" >>, << >> }
Resumes == { << >>, << " " >>, << "c" >>, << "C" >> }

\* the widgets' initial texts (lines 220, 223, 230)
DefaultCurrentRole == << "a" >>
DefaultTargetRole == << "b" >>
DefaultResume == << "c" >>

----------------------------------------------------------------------------
(* The skill gap (design_curriculum, lines 173-177).                       *)

\* [skill for skill in required if skill not in existing]
RECURSIVE computeGap(_, _)
computeGap(required, existing) ==
    IF required = << >> THEN << >>
    ELSE IF ~InList(Head(required), existing)
         THEN << Head(required) >> \o computeGap(Tail(required), existing)
         ELSE computeGap(Tail(required), existing)

----------------------------------------------------------------------------
(* The gateway: safe_generate_content (lines 44-85).                       *)

\* The arguments st.cache_data hashes (all but _client). `stage` stands for
\* model_name, tools and the fixed part of system_instruction, which differ
\* from stage to stage; `contents` holds the values interpolated into the
\* prompt and the instruction.
AnalyzeKey(resume) ==
    [ stage |-> "Analyze", contents |-> << resume >>, max_retries |-> max_retries ]

ResearchKey(target) ==
    [ stage |-> "Research", contents |-> << target >>, max_retries |-> max_retries ]

DesignKey(analysis, research, current, target) ==
    [ stage |-> "Design",
      contents |-> << current, target, research.salary_range,
                      Join(analysis.current_skills, << ",", " " >>),
                      Join(research.required_skills, << ",", " " >>),
                      Join(computeGap(research.required_skills,
                                      analysis.current_skills), << ",", " " >>) >>,
      max_retries |-> max_retries ]

\* st.cache_data: the memo is consulted with the hashed arguments
CacheHas(cache, key) == key \in DOMAIN cache

\* a memo that forgets what it is given
CacheStoreDropped(cache, key, value) == cache

\* st.cache_data: a returned value is stored under the hashed arguments
CacheStore(cache, key, value) ==
    IF key \in DOMAIN cache THEN [cache EXCEPT ![key] = value]
    ELSE cache @@ (key :> value)

\* a counter kept outside the call, which goes on where the last call stopped
FirstAttemptLeaked(left) == left

\* first value of `for attempt in range(max_retries)` (line 63); `left` is
\* what the previous call left in the variable
FirstAttempt(left) == 0

\* the loop body runs for attempt in range(n) (line 63)
InRange(att, n) == att < n

\* `except APIError` (line 73) catches the exception
IsAPIError(kind) == kind \in { "server", "client" }

\* the last iteration is given up one attempt early
RetryAllowedShort(att, n) == att < n - 2

\* the last iteration sleeps like the others, and never re-raises
RetryAllowedAlways(att, n) == att < n

\* `if attempt < max_retries - 1` (line 75): sleep and go round again
RetryAllowed(att, n) == att < n - 1

\* a retry without its warning
RetryTraceSilent == << "req", "sleep" >>

\* lines 64-76: a failed request that is retried: the request, st.warning,
\* time.sleep(8)
RetryTrace == << "req", "warn", "sleep" >>

\* entering safe_generate_content(key): memo hit, or st.info (line 51) and
\* the first iteration of the loop
GwInvoke(key) ==
    /\ gwKey' = key
    /\ lastAnswer' = "none"
    /\ transientOnly' = TRUE
    /\ IF CacheHas(gwCache, key)
       THEN /\ gwpc' = "hit"
            /\ gwResult' = gwCache[key]
            /\ events' = << >>
            /\ UNCHANGED attempt
       ELSE /\ gwpc' = "loop"
            /\ gwResult' = NoResult
            /\ events' = << "info" >>
            /\ attempt' = FirstAttempt(attempt)
    /\ UNCHANGED gwCache

\* lines 64-71: the request succeeds and the response is returned (and memoized)
GwAttemptOk ==
    /\ gwpc = "loop"
    /\ InRange(attempt, max_retries)
    /\ \E text \in Texts(gwKey.stage) :
          /\ gwResult' = Response(text)
          /\ gwCache' = CacheStore(gwCache, gwKey, Response(text))
    /\ gwpc' = "returned"
    /\ lastAnswer' = "ok"
    /\ events' = events \o << "req" >>
    /\ UNCHANGED << storedInputs, fallbackMemo,
                    current_role, target_role, resume_text, roadmap_result,
                    max_retries, researchCache, designCache, pc, gwKey, attempt,
                    transientOnly, analysis_output, research_output,
                    roadmap_markdown, gap_skills, stagesRun, runs, rejected,
                    displayed, prevCall >>

\* lines 73-79: the request raises an APIError: warn, then sleep and retry,
\* or report and re-raise on the last iteration
GwAttemptAPIError ==
    /\ gwpc = "loop"
    /\ InRange(attempt, max_retries)
    /\ \E kind \in { k \in ErrorKinds : IsAPIError(k) } :
          /\ lastAnswer' = kind
          /\ transientOnly' = (transientOnly /\ kind \in TransientKinds)
          /\ IF RetryAllowed(attempt, max_retries)
             THEN /\ events' = events \o RetryTrace
                  /\ attempt' = attempt + 1
                  /\ UNCHANGED << gwpc, gwResult >>
             ELSE /\ events' = events \o << "req", "warn", "error" >>
                  /\ gwpc' = "raised"
                  /\ gwResult' = Raised(kind)
                  /\ UNCHANGED attempt
    /\ UNCHANGED << storedInputs, fallbackMemo,
                    current_role, target_role, resume_text, roadmap_result,
                    max_retries, gwCache, researchCache, designCache, pc, gwKey,
                    analysis_output, research_output, roadmap_markdown, gap_skills,
                    stagesRun, runs, rejected, displayed, prevCall >>

\* lines 81-83: the request raises another exception: report and re-raise
GwAttemptOtherError ==
    /\ gwpc = "loop"
    /\ InRange(attempt, max_retries)
    /\ \E kind \in { k \in ErrorKinds : ~IsAPIError(k) } :
          /\ lastAnswer' = kind
          /\ transientOnly' = (transientOnly /\ kind \in TransientKinds)
          /\ gwResult' = Raised(kind)
    /\ events' = events \o << "req", "error" >>
    /\ gwpc' = "raised"
    /\ UNCHANGED << storedInputs, fallbackMemo,
                    current_role, target_role, resume_text, roadmap_result,
                    max_retries, gwCache, researchCache, designCache, pc, gwKey,
                    attempt, analysis_output, research_output, roadmap_markdown,
                    gap_skills, stagesRun, runs, rejected, displayed, prevCall >>

\* line 85: the loop ends without a return or a raise: None is returned
\* (and memoized)
GwLoopExit ==
    /\ gwpc = "loop"
    /\ ~InRange(attempt, max_retries)
    /\ gwResult' = NoneValue
    /\ gwCache' = CacheStore(gwCache, gwKey, NoneValue)
    /\ gwpc' = "returned"
    /\ UNCHANGED << storedInputs, fallbackMemo,
                    current_role, target_role, resume_text, roadmap_result,
                    max_retries, researchCache, designCache, pc, gwKey, attempt,
                    lastAnswer, transientOnly, events, analysis_output, research_output,
                    roadmap_markdown, gap_skills, stagesRun, runs, rejected,
                    displayed, prevCall >>

\* the gateway call of the running stage has ended
GwEnded == gwpc \in { "returned", "raised", "hit" }

\* the stage's own call has ended (its memo answered, its body raised before
\* the gateway call, or its gateway call ended)
CallEnded == GwEnded \/ gwpc \in { "skipped", "nocall" }

\* number of requests sent to the remote service by the call
Requests(ev) == Cardinality({ i \in 1..Len(ev) : ev[i] = "req" })

\* number of time.sleep(8) of the call
Sleeps(ev) == Cardinality({ i \in 1..Len(ev) : ev[i] = "sleep" })

\* the frame of the call is dropped when the stage goes on
GwLeave ==
    /\ gwpc' = "idle"
    /\ gwKey' = NoKey
    /\ gwResult' = NoResult
    /\ lastAnswer' = "none"
    /\ transientOnly' = TRUE
    /\ events' = << >>

\* what the stage remembers of the call that just ended
CallRecord(args) ==
    [ valid |-> TRUE, args |-> args, ok |-> gwResult.tag # "raise" ]

----------------------------------------------------------------------------
(* The stages and the Streamlit script (lines 91-293).                     *)

\* the test without strip()
ResumeEmpty(resume) == resume = << >>

\* `not resume_text_input.strip()` (line 240)
ResumeMissing(resume) == Strip(resume) = << >>

\* run_id (line 247)
RunId(current, target, resume) == current \o target \o resume

\* a handler without the check of lines 250-251
ClearIfStaleNever(result, id) == result

\* lines 250-251: the stored result is dropped when its run_id differs
ClearIfStale(result, id) ==
    IF result # NoneValue /\ result.run_id # id THEN NoneValue ELSE result

\* lines 113-122 and 151-159: the try block around response.text and
\* json.loads, with its fallback (None has no attribute text)
ParseOrFallback(result, fallback) ==
    IF result = NoneValue \/ JsonFails(result.text) THEN fallback
    ELSE JsonLoads(result.text)

\* lines 154-156: response.text or json.loads raised inside the try block
ParseFailed(result) == result = NoneValue \/ JsonFails(result.text)

\* line 208
RoadmapText(result) == IF result # NoneValue THEN result.text ELSE ErrorRoadmap

\* lines 169-170, 189: the subscripts design_curriculum evaluates do not raise
HasDesignKeys(analysis, research) ==
    /\ "current_skills" \in DOMAIN analysis
    /\ "required_skills" \in DOMAIN research
    /\ "salary_range" \in DOMAIN research

\* a record stored without its run_id
StoredRecordNoId(id, content) ==
    [ tag |-> "dict", run_id |-> << >>, content |-> content ]

\* lines 277-280: the dict stored in the session state
StoredRecord(id, content) ==
    [ tag |-> "dict", run_id |-> id, content |-> content ]

\* a handler that leaves the stored result as it is
AbortedResultKept(result) == result

\* line 286: the except block of the handler resets the stored result
AbortedResult(result) == NoneValue

\* line 290: the condition of the display section
ShowsRoadmap(result) == result # NoneValue /\ result.content # ""

NoCall == [ valid |-> FALSE ]

\* a handler that goes back to Analyze after Research
StageAfterBack(stage) ==
    CASE stage = "Analyze"  -> "research"
      [] stage = "Research" -> "analyze"
      [] stage = "Design"   -> "store"

\* lines 257-280: where the handler goes on when a stage has returned
StageAfter(stage) ==
    CASE stage = "Analyze"  -> "research"
      [] stage = "Research" -> "design"
      [] stage = "Design"   -> "store"

\* a script run without the button pressed: the user has edited a widget
\* (lines 212-236, then the display section, lines 288-293)
EditInput ==
    /\ pc = "idle"
    /\ runs < MaxRuns
    /\ \E c \in CurrentRoles, t \in TargetRoles, r \in Resumes :
          /\ << c, t, r >> # << current_role, target_role, resume_text >>
          /\ current_role' = c
          /\ target_role' = t
          /\ resume_text' = r
    /\ displayed' = ShowsRoadmap(roadmap_result)
    /\ rejected' = FALSE
    /\ stagesRun' = << >>
    /\ UNCHANGED << storedInputs, fallbackMemo,
                    roadmap_result, max_retries, gwCache, researchCache,
                    designCache, pc, gwpc, gwKey, attempt, lastAnswer,
                    transientOnly, events,
                    gwResult, analysis_output, research_output, roadmap_markdown,
                    gap_skills, runs, prevCall >>

\* lines 237-251: the button is pressed; a missing resume stops the script,
\* otherwise a stale stored result is dropped and the pipeline starts
ClickButton ==
    /\ pc = "idle"
    /\ runs < MaxRuns
    /\ runs' = runs + 1
    /\ stagesRun' = << >>
    /\ displayed' = FALSE
    /\ IF ResumeMissing(resume_text)
       THEN /\ rejected' = TRUE
            /\ UNCHANGED << roadmap_result, pc >>
       ELSE /\ rejected' = FALSE
            /\ roadmap_result' =
                  ClearIfStale(roadmap_result,
                               RunId(current_role, target_role, resume_text))
            /\ pc' = "analyze"
    /\ UNCHANGED << storedInputs, fallbackMemo,
                    current_role, target_role, resume_text, max_retries, gwCache,
                    researchCache, designCache, gwpc, gwKey, attempt, lastAnswer,
                    transientOnly, events, gwResult, analysis_output, research_output,
                    roadmap_markdown, gap_skills, prevCall >>

\* lines 257, 91-111: analyze_resume is entered and calls the gateway
AnalyzeCall ==
    /\ pc = "analyze"
    /\ stagesRun' = Append(stagesRun, "Analyze")
    /\ GwInvoke(AnalyzeKey(resume_text))
    /\ pc' = "analyze_wait"
    /\ UNCHANGED << storedInputs, fallbackMemo,
                    current_role, target_role, resume_text, roadmap_result,
                    max_retries, researchCache, designCache, analysis_output,
                    research_output, roadmap_markdown, gap_skills, runs, rejected,
                    displayed, prevCall >>

\* lines 113-122: analyze_resume parses the response or falls back; an
\* exception of the gateway reaches the handler of lines 284-286
AnalyzeReturn ==
    /\ pc = "analyze_wait"
    /\ CallEnded
    /\ IF gwResult.tag = "raise"
       THEN /\ roadmap_result' = AbortedResult(roadmap_result)
            /\ pc' = "display"
            /\ UNCHANGED analysis_output
       ELSE /\ analysis_output' = ParseOrFallback(gwResult, FallbackAnalysis)
            /\ pc' = StageAfter("Analyze")
            /\ UNCHANGED roadmap_result
    /\ prevCall' = [prevCall EXCEPT !["Analyze"] = CallRecord(<< resume_text >>)]
    /\ GwLeave
    /\ UNCHANGED << storedInputs, fallbackMemo,
                    current_role, target_role, resume_text, max_retries, gwCache,
                    researchCache, designCache, attempt, research_output,
                    roadmap_markdown, gap_skills, stagesRun, runs, rejected,
                    displayed >>

\* the arguments st.cache_data hashes for research_gaps (line 127)
ResearchArgs == << analysis_output, current_role, target_role >>

\* lines 260-265, 125-149: research_gaps is called: its memo answers, or its
\* body runs and calls the gateway
ResearchCall ==
    /\ pc = "research"
    /\ stagesRun' = Append(stagesRun, "Research")
    /\ IF CacheHas(researchCache, ResearchArgs)
       THEN /\ gwpc' = "skipped"
            /\ gwResult' = [ tag |-> "memo", value |-> researchCache[ResearchArgs] ]
            /\ UNCHANGED << gwKey, lastAnswer, transientOnly, events, attempt, gwCache >>
       ELSE GwInvoke(ResearchKey(target_role))
    /\ pc' = "research_wait"
    /\ UNCHANGED << storedInputs, fallbackMemo,
                    current_role, target_role, resume_text, roadmap_result,
                    max_retries, researchCache, designCache, analysis_output,
                    research_output, roadmap_markdown, gap_skills, runs, rejected,
                    displayed, prevCall >>

\* lines 151-159: research_gaps parses the response or falls back, and the
\* returned value is memoized; an exception reaches lines 284-286
ResearchReturn ==
    /\ pc = "research_wait"
    /\ CallEnded
    /\ IF gwResult.tag = "raise"
       THEN /\ roadmap_result' = AbortedResult(roadmap_result)
            /\ pc' = "display"
            /\ UNCHANGED << research_output, researchCache, fallbackMemo >>
       ELSE /\ research_output' =
                  IF gwpc = "skipped" THEN gwResult.value
                  ELSE ParseOrFallback(gwResult, FallbackResearch)
            /\ researchCache' =
                  IF gwpc = "skipped" THEN researchCache
                  ELSE CacheStore(researchCache, ResearchArgs,
                                  ParseOrFallback(gwResult, FallbackResearch))
            /\ fallbackMemo' =
                  IF gwpc # "skipped" /\ ParseFailed(gwResult)
                  THEN fallbackMemo \cup { ResearchArgs }
                  ELSE fallbackMemo
            /\ pc' = StageAfter("Research")
            /\ UNCHANGED roadmap_result
    /\ prevCall' = [prevCall EXCEPT !["Research"] = CallRecord(ResearchArgs)]
    /\ GwLeave
    /\ UNCHANGED << storedInputs,
                    current_role, target_role, resume_text, max_retries, gwCache,
                    designCache, attempt, analysis_output, roadmap_markdown,
                    gap_skills, stagesRun, runs, rejected, displayed >>

\* the arguments st.cache_data hashes for design_curriculum (line 164)
DesignArgs == << analysis_output, research_output, current_role, target_role >>

\* lines 268-274, 162-206: design_curriculum is called: its memo answers, or
\* its body runs: the subscripts of lines 169-170 raise KeyError when a key
\* is missing, otherwise the gap is computed and the gateway is called
DesignCall ==
    /\ pc = "design"
    /\ stagesRun' = Append(stagesRun, "Design")
    /\ IF CacheHas(designCache, DesignArgs)
       THEN /\ gwpc' = "skipped"
            /\ gwResult' = [ tag |-> "memo", value |-> designCache[DesignArgs] ]
            /\ UNCHANGED << gwKey, lastAnswer, transientOnly, events, attempt, gwCache, gap_skills >>
       ELSE IF ~HasDesignKeys(analysis_output, research_output)
       THEN /\ gwpc' = "nocall"
            /\ gwResult' = Raised("KeyError")
            /\ UNCHANGED << gwKey, lastAnswer, transientOnly, events, attempt, gwCache, gap_skills >>
       ELSE /\ gap_skills' = computeGap(research_output.required_skills,
                                        analysis_output.current_skills)
            /\ GwInvoke(DesignKey(analysis_output, research_output,
                                  current_role, target_role))
    /\ pc' = "design_wait"
    /\ UNCHANGED << storedInputs, fallbackMemo,
                    current_role, target_role, resume_text, roadmap_result,
                    max_retries, researchCache, designCache, analysis_output,
                    research_output, roadmap_markdown, runs, rejected, displayed,
                    prevCall >>

\* line 208: design_curriculum returns the text of the response, and the
\* returned value is memoized; an exception reaches lines 284-286
DesignReturn ==
    /\ pc = "design_wait"
    /\ CallEnded
    /\ IF gwResult.tag = "raise"
       THEN /\ roadmap_result' = AbortedResult(roadmap_result)
            /\ pc' = "display"
            /\ UNCHANGED << roadmap_markdown, designCache >>
       ELSE /\ roadmap_markdown' =
                  IF gwpc = "skipped" THEN gwResult.value ELSE RoadmapText(gwResult)
            /\ designCache' =
                  IF gwpc = "skipped" THEN designCache
                  ELSE CacheStore(designCache, DesignArgs, RoadmapText(gwResult))
            /\ pc' = StageAfter("Design")
            /\ UNCHANGED roadmap_result
    /\ prevCall' = [prevCall EXCEPT !["Design"] = CallRecord(DesignArgs)]
    /\ GwLeave
    /\ UNCHANGED << storedInputs, fallbackMemo,
                    current_role, target_role, resume_text, max_retries, gwCache,
                    researchCache, attempt, analysis_output, research_output,
                    gap_skills, stagesRun, runs, rejected, displayed >>

\* lines 276-282: the roadmap is stored in the session state
StoreResult ==
    /\ pc = "store"
    /\ roadmap_result' =
          StoredRecord(RunId(current_role, target_role, resume_text),
                       roadmap_markdown)
    /\ storedInputs' = << current_role, target_role, resume_text >>
    /\ pc' = "display"
    /\ UNCHANGED << fallbackMemo,
                    current_role, target_role, resume_text, max_retries, gwCache,
                    researchCache, designCache, gwpc, gwKey, attempt, lastAnswer,
                    transientOnly, events, gwResult, analysis_output, research_output,
                    roadmap_markdown, gap_skills, stagesRun, runs, rejected,
                    displayed, prevCall >>

\* lines 288-293: the display section at the end of a run; the script ends
\* and its locals are gone
Display ==
    /\ pc = "display"
    /\ displayed' = ShowsRoadmap(roadmap_result)
    /\ pc' = "idle"
    /\ analysis_output' = NoData
    /\ research_output' = NoData
    /\ roadmap_markdown' = ""
    /\ gap_skills' = << >>
    /\ attempt' = 0
    /\ UNCHANGED << storedInputs, fallbackMemo,
                    current_role, target_role, resume_text, roadmap_result,
                    max_retries, gwCache, researchCache, designCache, gwpc, gwKey,
                    lastAnswer, transientOnly, events, gwResult, stagesRun, runs, rejected,
                    prevCall >>

----------------------------------------------------------------------------

\* the state after the first script run (lines 12-41, 212-236): the widgets
\* show their initial texts, the session holds no roadmap, the memos are empty
Init ==
    /\ current_role = DefaultCurrentRole
    /\ target_role = DefaultTargetRole
    /\ resume_text = DefaultResume
    /\ roadmap_result = NoneValue
    /\ max_retries \in 0..MaxRetries
    /\ gwCache = << >>
    /\ researchCache = << >>
    /\ designCache = << >>
    /\ pc = "idle"
    /\ gwpc = "idle"
    /\ gwKey = NoKey
    /\ attempt = 0
    /\ lastAnswer = "none"
    /\ transientOnly = TRUE
    /\ events = << >>
    /\ gwResult = NoResult
    /\ analysis_output = NoData
    /\ research_output = NoData
    /\ roadmap_markdown = ""
    /\ gap_skills = << >>
    /\ stagesRun = << >>
    /\ runs = 0
    /\ rejected = FALSE
    /\ displayed = FALSE
    /\ prevCall = [ s \in Stages |-> NoCall ]
    /\ storedInputs = << >>
    /\ fallbackMemo = { }

Next ==
    \/ EditInput
    \/ ClickButton
    \/ AnalyzeCall
    \/ AnalyzeReturn
    \/ ResearchCall
    \/ ResearchReturn
    \/ DesignCall
    \/ DesignReturn
    \/ StoreResult
    \/ Display
    \/ GwAttemptOk
    \/ GwAttemptAPIError
    \/ GwAttemptOtherError
    \/ GwLoopExit

Spec == Init /\ [][Next]_vars

\* the sessions of a user who presses the button again and again without
\* editing the widgets
NextSameInputs ==
    \/ ClickButton
    \/ AnalyzeCall
    \/ AnalyzeReturn
    \/ ResearchCall
    \/ ResearchReturn
    \/ DesignCall
    \/ DesignReturn
    \/ StoreResult
    \/ Display
    \/ GwAttemptOk
    \/ GwAttemptAPIError
    \/ GwAttemptOtherError
    \/ GwLoopExit

SpecSameInputs == Init /\ [][NextSameInputs]_vars

\* one step of the body of safe_generate_content (lines 63-85)
GwStep ==
    \/ GwAttemptOk
    \/ GwAttemptAPIError
    \/ GwAttemptOtherError
    \/ GwLoopExit

\* the same sessions, with every request answered in the end:
\* generate_content returns or raises, time.sleep(8) returns, and the loop
\* goes on
SpecAnswered == Init /\ [][NextSameInputs]_vars /\ WF_vars(GwStep)

----------------------------------------------------------------------------
(* The gap computation on its own: the two skill lists are drawn from      *)
(* bounded sets and lines 173-177 are applied to them.                     *)

\* skills the lists are drawn from
GapSkills == { Python, PythonLoose, SQL, Sql, Docker, Java }

InitGap ==
    /\ current_role = DefaultCurrentRole
    /\ target_role = DefaultTargetRole
    /\ resume_text = DefaultResume
    /\ roadmap_result = NoneValue
    /\ max_retries = 0
    /\ gwCache = << >>
    /\ researchCache = << >>
    /\ designCache = << >>
    /\ pc = "gap"
    /\ gwpc = "idle"
    /\ gwKey = NoKey
    /\ attempt = 0
    /\ lastAnswer = "none"
    /\ transientOnly = TRUE
    /\ events = << >>
    /\ gwResult = NoResult
    /\ \E existing \in ListsUpTo(GapSkills, MaxExisting) :
          analysis_output = [ current_skills |-> existing ]
    /\ \E required \in ListsUpTo(GapSkills, MaxRequired) :
          research_output = [ required_skills |-> required ]
    /\ roadmap_markdown = ""
    /\ gap_skills = << >>
    /\ stagesRun = << >>
    /\ runs = 0
    /\ rejected = FALSE
    /\ displayed = FALSE
    /\ prevCall = [ s \in Stages |-> NoCall ]
    /\ storedInputs = << >>
    /\ fallbackMemo = { }

\* lines 173-177
GapStep ==
    /\ pc = "gap"
    /\ gap_skills' = computeGap(research_output.required_skills,
                                analysis_output.current_skills)
    /\ pc' = "gap_done"
    /\ UNCHANGED << storedInputs, fallbackMemo,
                    current_role, target_role, resume_text, roadmap_result,
                    max_retries, gwCache, researchCache, designCache, gwpc, gwKey,
                    attempt, lastAnswer, transientOnly, events, gwResult,
                    analysis_output, research_output, roadmap_markdown, stagesRun,
                    runs, rejected, displayed, prevCall >>

NextGap == GapStep

SpecGap == InitGap /\ [][NextGap]_vars

----------------------------------------------------------------------------
(* Properties.                                                             *)

\* the body of safe_generate_content has run and ended
BodyEnded == gwpc \in { "returned", "raised" }

C2_PermanentNotRetried ==
    lastAnswer \in PermanentKinds =>
        /\ gwpc = "raised"
        /\ events[Len(events)] # "sleep"

C4_BudgetPerCall ==
    /\ gwpc = "loop" => attempt = Requests(events)
    /\ (gwpc = "raised" /\ IsAPIError(lastAnswer)) =>
          Requests(events) = max_retries

\* in a second run, after a call of the first run has used up its retries,
\* a call makes its N requests again
C4_Witness ==
    /\ runs = 2
    /\ pc = "analyze_wait"
    /\ prevCall["Analyze"].valid
    /\ ~prevCall["Analyze"].ok
    /\ gwpc = "raised"
    /\ IsAPIError(lastAnswer)
    /\ max_retries >= 2
    /\ Requests(events) = max_retries

UpperChars == << "A", "B", "C", "D", "E", "F", "G", "H", "I", "J", "K", "L", "M",
                "N", "O", "P", "Q", "R", "S", "T", "U", "V", "W", "X", "Y", "Z" >>
LowerChars == << "a", "b", "c", "d", "e", "f", "g", "h", "i", "j", "k", "l", "m",
                "n", "o", "p", "q", "r", "s", "t", "u", "v", "w", "x", "y", "z" >>

\* str.lower() on one character
LowerChar(c) ==
    IF \E i \in 1..Len(UpperChars) : UpperChars[i] = c
    THEN LowerChars[CHOOSE i \in 1..Len(UpperChars) : UpperChars[i] = c]
    ELSE c

\* str.lower()
Lower(s) == [i \in 1..Len(s) |-> LowerChar(s[i])]

\* lower-casing and trimming, the normalization of the cache property
Normalized(s) == Strip(Lower(s))

\* the stage whose call the handler is waiting for, and its arguments
WaitingStage ==
    CASE pc = "analyze_wait"  -> "Analyze"
      [] pc = "research_wait" -> "Research"
      [] pc = "design_wait"   -> "Design"
      [] OTHER                -> "none"

CurrentArgs ==
    CASE pc = "analyze_wait"  -> << resume_text >>
      [] pc = "research_wait" -> ResearchArgs
      [] pc = "design_wait"   -> DesignArgs

\* the arguments of a stage with every text among them normalized
NormalizedArgs(stage, args) ==
    CASE stage = "Analyze"  -> << Normalized(args[1]) >>
      [] stage = "Research" -> << args[1], Normalized(args[2]), Normalized(args[3]) >>
      [] stage = "Design"   ->
            << args[1], args[2], Normalized(args[3]), Normalized(args[4]) >>

\* the call that has just ended was answered from a memo: the body of the
\* gateway did not run and nothing was sent to the remote service
ServedFromCache == gwpc \in { "hit", "skipped" } /\ Requests(events) = 0

NormalizedSet(list) == { Normalized(list[i]) : i \in 1..Len(list) }

\* C6: the gap is case- and whitespace-insensitive: a required skill that
\* equals an existing skill after lower-casing and trimming both is not in
\* the gap.
C6_GapInsensitive ==
    pc = "gap_done" =>
        \A i \in 1..Len(research_output.required_skills) :
            Normalized(research_output.required_skills[i])
                  \in NormalizedSet(analysis_output.current_skills)
            => ~InList(research_output.required_skills[i], gap_skills)

\* C7: the gap is the set difference of the normalized required skills and
\* the normalized existing skills, each missing skill appearing once.
C7_GapIsSetDifference ==
    pc = "gap_done" =>
        /\ NormalizedSet(gap_skills) =
              NormalizedSet(research_output.required_skills)
                 \ NormalizedSet(analysis_output.current_skills)
        /\ \A i, j \in 1..Len(gap_skills) :
              i # j => Normalized(gap_skills[i]) # Normalized(gap_skills[j])

\* s is a prefix of t
IsPrefix(s, t) == Len(s) <= Len(t) /\ SubSeq(t, 1, Len(s)) = s

\* C8: in a run the stages are begun in the order Analyze, Research, Design,
\* each once; the call in progress is that of the stage begun last; Research
\* is begun only when Analyze has returned its profile, and Design only
\* when Research has returned its requirements.
C8_StageOrder ==
    /\ IsPrefix(stagesRun, << "Analyze", "Research", "Design" >>)
    /\ WaitingStage \in Stages => stagesRun[Len(stagesRun)] = WaitingStage
    /\ gwpc # "idle" => WaitingStage \in Stages
    /\ (pc # "idle" /\ Len(stagesRun) >= 2) => analysis_output # NoData
    /\ (pc # "idle" /\ Len(stagesRun) >= 3) =>
          (analysis_output # NoData /\ research_output # NoData)

\* a run that went through the three stages and showed its roadmap
C8_Witness ==
    /\ pc = "idle"
    /\ stagesRun = << "Analyze", "Research", "Design" >>
    /\ displayed

\* the response does not have the shape the stage asked for: its text is no
\* JSON, or JSON without the expected keys
InvalidShape(result, keys) ==
    /\ result.tag = "response"
    /\ \/ JsonFails(result.text)
       \/ ~(keys \subseteq DOMAIN JsonLoads(result.text))

\* C9: when the response to Analyze or Research does not have the expected
\* shape, the stage returns its fallback object and the run goes on.
C9_FallbackOnInvalid ==
    [][ /\ (/\ pc = "analyze_wait"
            /\ GwEnded
            /\ InvalidShape(gwResult,
                            { "current_skills", "current_roles", "target_career" }))
           => (analysis_output' = FallbackAnalysis /\ pc' = "research")
        /\ (/\ pc = "research_wait"
            /\ GwEnded
            /\ InvalidShape(gwResult, { "required_skills", "salary_range" }))
           => (research_output' = FallbackResearch /\ pc' = "design") ]_vars

\* the text is empty or holds nothing but whitespace
Blank(text) == \A i \in 1..Len(text) : text[i] \in { " ", "\n", "\t" }

\* C10: a press of the button with an empty or blank resume is rejected
\* before any stage starts: no call is made, nothing is memoized, the stored
\* roadmap stays as it was; and no run is ever in progress on such a resume.
C10_MissingResumeRejected ==
    /\ [](pc # "idle" => ~Blank(resume_text))
    /\ [][ (pc = "idle" /\ runs' = runs + 1 /\ Blank(resume_text)) =>
              /\ rejected'
              /\ pc' = "idle"
              /\ stagesRun' = << >>
              /\ gwpc' = "idle"
              /\ events' = << >>
              /\ ~displayed'
              /\ UNCHANGED << roadmap_result, gwCache, researchCache,
                              designCache >> ]_vars

\* the button is pressed on a blank resume while a roadmap is stored: the
\* press is rejected and the roadmap is still stored
C10_Witness ==
    /\ rejected
    /\ resume_text = << " " >>
    /\ runs = 2
    /\ roadmap_result # NoneValue

\* the call of the i-th stage of the run has ended
StageEnded(i) == i < Len(stagesRun) \/ WaitingStage = "none"

\* C11: when the call of a stage of a run raises, no later stage of the run
\* is begun, the handler has reset the stored roadmap to None, and the
\* display section shows no roadmap: neither output of this run nor the
\* roadmap of an earlier run; a roadmap is shown only while one is stored.
C11_AbortStopsRun ==
    /\ \A i \in 1..Len(stagesRun) :
          (StageEnded(i) /\ ~prevCall[stagesRun[i]].ok) =>
              /\ i = Len(stagesRun)
              /\ pc \in { "display", "idle" }
              /\ roadmap_result = NoneValue
              /\ ~displayed
    /\ displayed => roadmap_result # NoneValue

\* a first run stored its roadmap; the second run was aborted by its
\* Research stage and has ended with nothing stored and nothing shown
C11_Witness ==
    /\ runs = 2
    /\ pc = "idle"
    /\ stagesRun = << "Analyze", "Research" >>
    /\ ~prevCall["Research"].ok
    /\ prevCall["Design"].valid
    /\ prevCall["Design"].ok
    /\ roadmap_result = NoneValue
    /\ ~displayed

\* the button is pressed and the press is accepted: the step of lines 237-251
AcceptedPress == pc = "idle" /\ pc' = "analyze"

\* every entry of the memo is still in it after the step
MemoKept(cache, cacheAfter) ==
    \A k \in DOMAIN cache : k \in DOMAIN cacheAfter /\ cacheAfter[k] = cache[k]

Notifications == { "info", "warn" }

\* C13: within a call of the gateway a notification precedes every request:
\* for each request, the first and every retry, a notification is emitted
\* after the request before it (or after the start of the call) and before
\* the request is sent.
C13_NotifiedBeforeAttempt ==
    \A i \in 1..Len(events) :
        events[i] = "req" =>
            \E j \in 1..(i - 1) :
                /\ events[j] \in Notifications
                /\ \A k \in j..(i - 1) : events[k] # "req"

\* a call that has sent its third request, each retry after a warning
C13_Witness ==
    events = << "info", "req", "warn", "sleep", "req", "warn", "sleep", "req" >>

\* C14: the gateway sleeps only between requests: a call that has ended
\* after a >= 1 requests has slept a-1 times; each sleep comes after a
\* failed request and its warning and is followed by the next request;
\* no sleep follows a successful request or the last failed one.
C14_SleepsBetweenAttempts ==
    /\ (BodyEnded /\ Requests(events) >= 1) =>
          /\ Sleeps(events) = Requests(events) - 1
          /\ events[Len(events)] # "sleep"
    /\ gwpc = "loop" =>
          /\ Sleeps(events) = Requests(events)
          /\ events[Len(events)] = "sleep" => InRange(attempt, max_retries)
    /\ \A i \in 1..Len(events) :
          events[i] = "sleep" =>
              /\ i >= 3
              /\ events[i - 2] = "req"
              /\ events[i - 1] = "warn"
              /\ i < Len(events) => events[i + 1] = "req"

\* a call that has raised after three requests and two sleeps
C14_Witness ==
    /\ gwpc = "raised"
    /\ Requests(events) = 3
    /\ Sleeps(events) = 2

C16_RunIdDistinguishes ==
    [][ (/\ AcceptedPress
         /\ roadmap_result # NoneValue
         /\ storedInputs # << current_role, target_role, resume_text >>)
        => /\ roadmap_result.run_id
                 # RunId(current_role, target_role, resume_text)
           /\ roadmap_result' = NoneValue ]_vars

\* C17 (as stated): in every script run, with or without the button
\* pressed, a roadmap that is displayed has the run_id of the current widget
\* texts.
C17_DisplayedIsCurrent_AsStated ==
    displayed =>
        /\ roadmap_result # NoneValue
        /\ roadmap_result.run_id = RunId(current_role, target_role, resume_text)

\* C17 (amended): a roadmap displayed by a script run in which the button
\* was pressed has the run_id of the current widget texts and was computed
\* from them; a script run without the button displays whatever roadmap is
\* stored.
C17_DisplayedIsCurrent ==
    /\ (displayed /\ stagesRun # << >>) =>
          /\ roadmap_result # NoneValue
          /\ roadmap_result.run_id
                = RunId(current_role, target_role, resume_text)
          /\ storedInputs = << current_role, target_role, resume_text >>
    /\ (pc = "idle" /\ ~rejected /\ stagesRun = << >>) =>
          displayed = ShowsRoadmap(roadmap_result)

\* a second run, on edited widget texts, has displayed its roadmap
C17_Witness ==
    /\ pc = "idle"
    /\ runs = 2
    /\ displayed
    /\ stagesRun = << "Analyze", "Research", "Design" >>
    /\ current_role = << "a", "b" >>
    /\ target_role = << "b" >>

\* C18: a fallback is memoized like a parsed answer: once research_gaps has
\* returned its fallback for some arguments because the response could not
\* be parsed, a later call with these arguments is answered by the memo
\* with that fallback, and nothing is sent to the remote service.
C18_FallbackMemoized ==
    /\ (pc = "research_wait" /\ ResearchArgs \in fallbackMemo) =>
          /\ gwpc = "skipped"
          /\ gwResult.value = FallbackResearch
          /\ Requests(events) = 0
    /\ \A args \in fallbackMemo :
          /\ args \in DOMAIN researchCache
          /\ researchCache[args] = FallbackResearch

\* in a second run research_gaps is called with the arguments for which it
\* fell back in the first, and its memo answers
C18_Witness ==
    /\ runs = 2
    /\ pc = "research_wait"
    /\ ResearchArgs \in fallbackMemo
    /\ gwpc = "skipped"

====
